---------------------------- MODULE Spec2Model ----------------------------
(***************************************************************************)
(* CyberShield: the credential auditor (PasswordChecker component).        *)
(*                                                                         *)
(* A credential is a sequence of one-character strings.  The regular      *)
(* expressions of the source are kept as syntax trees and run by a small  *)
(* matcher; the powers R^L of the crack-time estimate are computed on     *)
(* arbitrary-precision naturals (sequences of base-10000 limbs, least     *)
(* significant first), because they exceed the machine integers.          *)
(***************************************************************************)
EXTENDS Integers, Sequences, FiniteSets, TLC

(***************************************************************************)
(* Bounds of the model.                                                    *)
(***************************************************************************)
\* longest credential the model lets the field hold
MaxLen == 16
\* free typing is modelled up to this length; beyond it only key repeat
MaxFree == 4

(***************************************************************************)
(* Characters.                                                             *)
(***************************************************************************)
LowerChars ==
    {"a","b","c","d","e","f","g","h","i","j","k","l","m",
     "n","o","p","q","r","s","t","u","v","w","x","y","z"}

UpperChars ==
    {"A","B","C","D","E","F","G","H","I","J","K","L","M",
     "N","O","P","Q","R","S","T","U","V","W","X","Y","Z"}

DigitChars == {"0","1","2","3","4","5","6","7","8","9"}

\* the characters \s matches that a single-line text field can hold
SpaceChars == {" ", "\t"}

DigitValue(c) ==
    CASE c = "0" -> 0 [] c = "1" -> 1 [] c = "2" -> 2 [] c = "3" -> 3
      [] c = "4" -> 4 [] c = "5" -> 5 [] c = "6" -> 6 [] c = "7" -> 7
      [] c = "8" -> 8 [] c = "9" -> 9

(***************************************************************************)
(* Regular expressions: syntax trees and the matcher behind RegExp.test.   *)
(***************************************************************************)
Cls(S)    == [t |-> "cls",  set |-> S,  subs |-> <<>>,  n |-> 0]
NotCls(S) == [t |-> "ncls", set |-> S,  subs |-> <<>>,  n |-> 0]
Cat(rs)   == [t |-> "cat",  set |-> {}, subs |-> rs,    n |-> 0]
Alt(rs)   == [t |-> "alt",  set |-> {}, subs |-> rs,    n |-> 0]
Opt(r)    == [t |-> "opt",  set |-> {}, subs |-> <<r>>, n |-> 0]
Rep(r, k) == [t |-> "rep",  set |-> {}, subs |-> <<r>>, n |-> k]
Bol       == [t |-> "bol",  set |-> {}, subs |-> <<>>,  n |-> 0]
Eol       == [t |-> "eol",  set |-> {}, subs |-> <<>>,  n |-> 0]
Lit(c)    == Cls({c})

RECURSIVE Ends(_, _, _)
RECURSIVE EndsCat(_, _, _, _)
RECURSIVE EndsRep(_, _, _, _)

\* the positions at which a match of re that starts at position i of s can end
Ends(re, s, i) ==
    CASE re.t = "cls"  -> IF i <= Len(s) /\ s[i] \in re.set THEN {i + 1} ELSE {}
      [] re.t = "ncls" -> IF i <= Len(s) /\ s[i] \notin re.set THEN {i + 1} ELSE {}
      [] re.t = "bol"  -> IF i = 1 THEN {i} ELSE {}
      [] re.t = "eol"  -> IF i = Len(s) + 1 THEN {i} ELSE {}
      [] re.t = "opt"  -> {i} \cup Ends(re.subs[1], s, i)
      [] re.t = "alt"  -> UNION {Ends(re.subs[k], s, i) : k \in 1..Len(re.subs)}
      [] re.t = "cat"  -> EndsCat(re.subs, 1, s, {i})
      [] re.t = "rep"  -> EndsRep(re.subs[1], re.n, s, {i})

EndsCat(rs, k, s, from) ==
    IF k > Len(rs) \/ from = {} THEN from
    ELSE EndsCat(rs, k + 1, s, UNION {Ends(rs[k], s, i) : i \in from})

EndsRep(r, k, s, from) ==
    IF k = 0 \/ from = {} THEN from
    ELSE EndsRep(r, k - 1, s, UNION {Ends(r, s, i) : i \in from})

\* RegExp.prototype.test without the g/y flags: a match may start anywhere
Test(re, val) == \E i \in 1..(Len(val) + 1) : Ends(re, val, i) # {}

reLower  == Cls(LowerChars)
reUpper  == Cls(UpperChars)
reDigit  == Cls(DigitChars)
reSymbol == NotCls(UpperChars \cup LowerChars \cup DigitChars)

(***************************************************************************)
(* checkPopiaCompliance                                                    *)
(***************************************************************************)
Null == "null"
PopiaIdAlert == "POPIA ALERT: Detected potential South African ID number."
PrivacyPhoneWarning == "PRIVACY WARNING: Detected potential contact number."

\* /^[0-9]{2}(0[1-9]|1[0-2])(0[1-9]|[12][0-9]|3[01])[0-9]{7}$/
saIdPatternMonth0 ==
    Cat(<< Bol,
           Rep(reDigit, 2),
           Alt(<< Cat(<<Lit("0"), reDigit>>),
                  Cat(<<Lit("1"), Cls({"0","1","2"})>>) >>),
           Alt(<< Cat(<<Lit("0"), Cls(DigitChars \ {"0"})>>),
                  Cat(<<Cls({"1","2"}), reDigit>>),
                  Cat(<<Lit("3"), Cls({"0","1"})>>) >>),
           Rep(reDigit, 7),
           Eol >>)

saIdPattern ==
    Cat(<< Bol,
           Rep(reDigit, 2),
           Alt(<< Cat(<<Lit("0"), Cls(DigitChars \ {"0"})>>),
                  Cat(<<Lit("1"), Cls({"0","1","2"})>>) >>),
           Alt(<< Cat(<<Lit("0"), Cls(DigitChars \ {"0"})>>),
                  Cat(<<Cls({"1","2"}), reDigit>>),
                  Cat(<<Lit("3"), Cls({"0","1"})>>) >>),
           Rep(reDigit, 7),
           Eol >>)

\* /^((\+27|0)\s?([6-8][0-9])\s?([0-9]{3})\s?([0-9]{4}))$/
saPhonePattern ==
    Cat(<< Bol,
           Alt(<< Cat(<<Lit("+"), Lit("2"), Lit("7")>>), Lit("0") >>),
           Opt(Cls(SpaceChars)),
           Cat(<<Cls({"6","7","8"}), reDigit>>),
           Opt(Cls(SpaceChars)),
           Rep(reDigit, 3),
           Opt(Cls(SpaceChars)),
           Rep(reDigit, 4),
           Eol >>)

checkPopiaCompliance(val) ==
    IF Test(saIdPattern, val) THEN PopiaIdAlert
    ELSE IF Test(saPhonePattern, val) THEN PrivacyPhoneWarning
    ELSE Null

(***************************************************************************)
(* Arbitrary-precision naturals: base-10000 limbs, least significant first,*)
(* no leading zero limb (zero is the empty sequence).                      *)
(***************************************************************************)
LimbBase == 10000

RECURSIVE BigMulCarry(_, _, _, _)
BigMulCarry(a, k, i, carry) ==
    IF i > Len(a)
    THEN IF carry = 0 THEN <<>>
         ELSE <<carry % LimbBase>> \o BigMulCarry(a, k, i, carry \div LimbBase)
    ELSE LET v == a[i] * k + carry
         IN  <<v % LimbBase>> \o BigMulCarry(a, k, i + 1, v \div LimbBase)

\* a * k for a small natural k > 0
BigMulSmall(a, k) == BigMulCarry(a, k, 1, 0)

RECURSIVE BigPow(_, _)
\* Math.pow(r, l) on naturals
BigPow(r, l) == IF l = 0 THEN <<1>> ELSE BigMulSmall(BigPow(r, l - 1), r)

RECURSIVE BigGtFrom(_, _, _)
BigGtFrom(a, b, i) ==
    IF i = 0 THEN FALSE
    ELSE IF a[i] # b[i] THEN a[i] > b[i]
    ELSE BigGtFrom(a, b, i - 1)

\* a > b
BigGt(a, b) ==
    IF Len(a) # Len(b) THEN Len(a) > Len(b) ELSE BigGtFrom(a, b, Len(a))

(***************************************************************************)
(* calculateMetrics                                                        *)
(***************************************************************************)
\* Math.log2(r) for r in 1..95, in millionths, rounded down; precise enough
\* to give the floor of length * log2(r) for every length up to 40
Log2Micro ==
    << 0, 1000000, 1584962, 2000000, 2321928, 2584962, 2807354, 3000000,
       3169925, 3321928, 3459431, 3584962, 3700439, 3807354, 3906890, 4000000,
       4087462, 4169925, 4247927, 4321928, 4392317, 4459431, 4523561, 4584962,
       4643856, 4700439, 4754887, 4807354, 4857980, 4906890, 4954196, 5000000,
       5044394, 5087462, 5129283, 5169925, 5209453, 5247927, 5285402, 5321928,
       5357552, 5392317, 5426264, 5459431, 5491853, 5523561, 5554588, 5584962,
       5614709, 5643856, 5672425, 5700439, 5727920, 5754887, 5781359, 5807354,
       5832890, 5857980, 5882643, 5906890, 5930737, 5954196, 5977279, 6000000,
       6022367, 6044394, 6066089, 6087462, 6108524, 6129283, 6149747, 6169925,
       6189824, 6209453, 6228818, 6247927, 6266786, 6285402, 6303780, 6321928,
       6339850, 6357552, 6375039, 6392317, 6409390, 6426264, 6442943, 6459431,
       6475733, 6491853, 6507794, 6523561, 6539158, 6554588, 6569855 >>

MicroUnit == 1000000

charsetSizeOf(val) ==
      (IF Test(reLower, val)  THEN 26 ELSE 0)
    + (IF Test(reUpper, val)  THEN 26 ELSE 0)
    + (IF Test(reDigit, val)  THEN 10 ELSE 0)
    + (IF Test(reSymbol, val) THEN 33 ELSE 0)

\* Math.ceil in place of Math.floor
entropyOfCeil(val) ==
    ((Len(val) * Log2Micro[charsetSizeOf(val)]) \div MicroUnit) + 1

\* Math.floor(val.length * Math.log2(charsetSize))
entropyOf(val) ==
    (Len(val) * Log2Micro[charsetSizeOf(val)]) \div MicroUnit

\* the thresholds of the crack-time ladder, in seconds
SecondLimit  == <<1>>
MinuteLimit  == <<60>>
HourLimit    == <<3600>>
DayLimit     == <<6400, 8>>
MonthLimit   == <<2000, 259>>
YearLimit    == <<6000, 3153>>
DecadeLimit  == <<0, 1536, 3>>
CenturyLimit == <<0, 3600, 315>>

\* seconds * 100_000_000_000 guesses
GuessesIn(seconds) == <<0, 0>> \o BigMulSmall(seconds, 1000)

\* totalCombinations / 100_000_000_000 > seconds
SecondsExceed(totalCombinations, seconds) ==
    BigGt(totalCombinations, GuessesIn(seconds))

\* the ladder with >= on its last rung
crackTimeOfAtLeastOne(val) ==
    LET totalCombinations == BigPow(charsetSizeOf(val), Len(val))
    IN  IF SecondsExceed(totalCombinations, CenturyLimit) THEN "Centuries"
        ELSE IF SecondsExceed(totalCombinations, DecadeLimit) THEN "Decades"
        ELSE IF SecondsExceed(totalCombinations, YearLimit) THEN "Years"
        ELSE IF SecondsExceed(totalCombinations, MonthLimit) THEN "Months"
        ELSE IF SecondsExceed(totalCombinations, DayLimit) THEN "Days"
        ELSE IF SecondsExceed(totalCombinations, HourLimit) THEN "Hours"
        ELSE IF SecondsExceed(totalCombinations, MinuteLimit) THEN "Minutes"
        ELSE IF ~BigGt(GuessesIn(SecondLimit), totalCombinations) THEN "Seconds"
        ELSE "Instantly"

crackTimeOf(val) ==
    LET totalCombinations == BigPow(charsetSizeOf(val), Len(val))
    IN  IF SecondsExceed(totalCombinations, CenturyLimit) THEN "Centuries"
        ELSE IF SecondsExceed(totalCombinations, DecadeLimit) THEN "Decades"
        ELSE IF SecondsExceed(totalCombinations, YearLimit) THEN "Years"
        ELSE IF SecondsExceed(totalCombinations, MonthLimit) THEN "Months"
        ELSE IF SecondsExceed(totalCombinations, DayLimit) THEN "Days"
        ELSE IF SecondsExceed(totalCombinations, HourLimit) THEN "Hours"
        ELSE IF SecondsExceed(totalCombinations, MinuteLimit) THEN "Minutes"
        ELSE IF SecondsExceed(totalCombinations, SecondLimit) THEN "Seconds"
        ELSE "Instantly"

\* the last criterion as val.length > 14
scoreOfOver14(val) ==
      (IF Len(val) >= 8 THEN 1 ELSE 0)
    + (IF Test(reUpper, val) THEN 1 ELSE 0)
    + (IF Test(reDigit, val) THEN 1 ELSE 0)
    + (IF Test(reSymbol, val) THEN 1 ELSE 0)
    + (IF Len(val) > 14 THEN 1 ELSE 0)

\* a sixth criterion for lowercase letters
scoreOfWithLower(val) ==
      (IF Len(val) >= 8 THEN 1 ELSE 0)
    + (IF Test(reLower, val) THEN 1 ELSE 0)
    + (IF Test(reUpper, val) THEN 1 ELSE 0)
    + (IF Test(reDigit, val) THEN 1 ELSE 0)
    + (IF Test(reSymbol, val) THEN 1 ELSE 0)
    + (IF Len(val) >= 14 THEN 1 ELSE 0)

\* the last criterion as val.length === 14
scoreOfExactly14(val) ==
      (IF Len(val) >= 8 THEN 1 ELSE 0)
    + (IF Test(reUpper, val) THEN 1 ELSE 0)
    + (IF Test(reDigit, val) THEN 1 ELSE 0)
    + (IF Test(reSymbol, val) THEN 1 ELSE 0)
    + (IF Len(val) = 14 THEN 1 ELSE 0)

scoreOf(val) ==
      (IF Len(val) >= 8 THEN 1 ELSE 0)
    + (IF Test(reUpper, val) THEN 1 ELSE 0)
    + (IF Test(reDigit, val) THEN 1 ELSE 0)
    + (IF Test(reSymbol, val) THEN 1 ELSE 0)
    + (IF Len(val) >= 14 THEN 1 ELSE 0)

calculateMetrics(val) ==
    IF val = <<>>
    THEN [entropy |-> 0, score |-> 0, crackTime |-> "Instantly"]
    ELSE [entropy   |-> entropyOf(val),
          score     |-> scoreOf(val),
          crackTime |-> crackTimeOf(val)]

(***************************************************************************)
(* analyzePassword                                                         *)
(***************************************************************************)
SuggestLength == "Increase length to 12+ for Enterprise Compliance"
SuggestUpper  == "Include uppercase characters"
SuggestSymbol == "Include special symbols (!@#$%)"

\* the length suggestion tied to the 14-character criterion of the score
suggestionsOfBelow14(val) ==
       (IF Len(val) < 14 THEN <<SuggestLength>> ELSE <<>>)
    \o (IF ~Test(reUpper, val) THEN <<SuggestUpper>> ELSE <<>>)
    \o (IF ~Test(reSymbol, val) THEN <<SuggestSymbol>> ELSE <<>>)

\* the length suggestion with <= 12
suggestionsOfUpTo12(val) ==
       (IF Len(val) <= 12 THEN <<SuggestLength>> ELSE <<>>)
    \o (IF ~Test(reUpper, val) THEN <<SuggestUpper>> ELSE <<>>)
    \o (IF ~Test(reSymbol, val) THEN <<SuggestSymbol>> ELSE <<>>)

suggestionsOf(val) ==
       (IF Len(val) < 12 THEN <<SuggestLength>> ELSE <<>>)
    \o (IF ~Test(reUpper, val) THEN <<SuggestUpper>> ELSE <<>>)
    \o (IF ~Test(reSymbol, val) THEN <<SuggestSymbol>> ELSE <<>>)

\* the ladder without its val.length === 0 rung
ratingOfNoEmptyRung(val, score) ==
    IF score <= 1
    THEN [label |-> "Weak", color |-> "bg-red-400",
          compliance |-> "Non-Compliant", risk |-> "Critical"]
    ELSE IF score <= 3
    THEN [label |-> "Medium", color |-> "bg-yellow-400",
          compliance |-> "Partially Compliant", risk |-> "Elevated"]
    ELSE IF score = 4
    THEN [label |-> "Strong", color |-> "bg-green-400",
          compliance |-> "NIST-Standard", risk |-> "Secure"]
    ELSE [label |-> "Excellent", color |-> "bg-emerald-500",
          compliance |-> "NIST-Standard", risk |-> "Secure"]

\* label, color, compliance and risk chosen by the if/else ladder
ratingOf(val, score) ==
    IF Len(val) = 0
    THEN [label |-> "Very Weak", color |-> "bg-slate-700",
          compliance |-> "Non-Compliant", risk |-> "Critical"]
    ELSE IF score <= 1
    THEN [label |-> "Weak", color |-> "bg-red-400",
          compliance |-> "Non-Compliant", risk |-> "Critical"]
    ELSE IF score <= 3
    THEN [label |-> "Medium", color |-> "bg-yellow-400",
          compliance |-> "Partially Compliant", risk |-> "Elevated"]
    ELSE IF score = 4
    THEN [label |-> "Strong", color |-> "bg-green-400",
          compliance |-> "NIST-Standard", risk |-> "Secure"]
    ELSE [label |-> "Excellent", color |-> "bg-emerald-500",
          compliance |-> "NIST-Standard", risk |-> "Secure"]

\* the record analyzePassword hands to setStrength
analyzePassword(val) ==
    LET m == calculateMetrics(val)
        r == ratingOf(val, m.score)
    IN  [score            |-> m.score,
         label            |-> r.label,
         color            |-> r.color,
         suggestions      |-> suggestionsOf(val),
         entropy          |-> m.entropy,
         complianceRating |-> r.compliance,
         riskProfile      |-> r.risk,
         crackTime        |-> m.crackTime,
         popiaWarning     |-> checkPopiaCompliance(val)]

\* useState<PasswordStrength>({...})
InitialStrength ==
    [score            |-> 0,
     label            |-> "Very Weak",
     color            |-> "bg-slate-700",
     suggestions      |-> <<>>,
     entropy          |-> 0,
     complianceRating |-> "Non-Compliant",
     riskProfile      |-> "Critical",
     crackTime        |-> "Instantly",
     popiaWarning     |-> Null]

(***************************************************************************)
(* The component: its state and the edits of the credential field.         *)
(***************************************************************************)
VARIABLES
    password,   \* useState('') : the text of the credential field
    strength,   \* useState<PasswordStrength> : the assessment on display
    mounted,    \* TRUE once the effect of the first render has run
    baseline    \* history: <<>> or <<[input, result]>> of an earlier evaluation

\* the credential auditor
auditorVars == <<password, strength, mounted, baseline>>

(***************************************************************************)
(* The dashboard and its Threat Intelligence tab (LogAnalyzer component).  *)
(* A value that may be null is a sequence: <<>> for null, <<v>> for v.     *)
(***************************************************************************)
VARIABLES
    activeTab,    \* Dashboard useState<DashboardTab>
    logs,         \* LogAnalyzer useState('') : the text of the log terminal
    isAnalyzing,  \* LogAnalyzer useState(false)
    result,       \* LogAnalyzer useState<AnalysisResult | null>(null)
    scanHistory,  \* LogAnalyzer useState<HistoricalScan[]>
    call,         \* the performAnalysis call of the mounted LogAnalyzer
    orphans,      \* calls still running whose LogAnalyzer has been unmounted
    appended,     \* history: the scans analyses have added, newest first
    lastClick     \* history: what the latest step did with the analyze button

\* the state of the mounted LogAnalyzer and the requests of the page
analyzerVars == <<logs, isAnalyzing, result, scanHistory, call, orphans>>

dashboardVars == <<activeTab, analyzerVars, appended, lastClick>>

(***************************************************************************)
(* The application: the view, the sign-in form (Login component) and the   *)
(* token kept in localStorage.                                             *)
(***************************************************************************)
VARIABLES
    view,           \* App useState<AppView>
    user,           \* App useState<{username} | null> : <<>> or <<username>>
    username,       \* Login useState('')
    loginPassword,  \* Login useState('') : the password field of the form
    error,          \* Login useState('')
    isLoading,      \* Login useState(false)
    login,          \* the handleSubmit call of the mounted Login
    storedToken     \* localStorage 'cybershield_token' : <<>> or <<token>>

\* the state of the mounted Login
formVars == <<username, loginPassword, error, isLoading, login>>

appVars == <<view, user, formVars, storedToken>>

vars == <<auditorVars, dashboardVars, appVars>>

(***************************************************************************)
(* Bounds of the dashboard model.                                          *)
(***************************************************************************)
\* the clock shows one of MaxTicks + 1 consecutive milliseconds
MaxTicks == 1
\* scans the analyses of a session add (no analysis starts beyond it)
MaxScans == 1
\* calls left running by unmounted LogAnalyzers
MaxOrphans == 1

\* Date.now() when the page is loaded
StartTime == 1700000000

\* Date.now(), in milliseconds: what a reading of the clock may give (the
\* clock of the system can be set, so readings need not increase)
Times == StartTime..(StartTime + MaxTicks)

PASSWORD_CHECKER == "PASSWORD_CHECKER"
LOG_ANALYZER == "LOG_ANALYZER"

(***************************************************************************)
(* Log texts.                                                              *)
(***************************************************************************)
\* rawLogs of the seeded scan-1
AuthLogSample ==
    << "O", "c", "t", " ", "1", "2", " ", "1", "4", ":", "0", "2", ":",
       "0", "1", " ", "s", "e", "r", "v", "e", "r", "-", "0", "1", " ",
       "s", "s", "h", "d", "[", "1", "2", "3", "4", "]", ":", " ", "F",
       "a", "i", "l", "e", "d", " ", "p", "a", "s", "s", "w", "o", "r",
       "d", " ", "f", "o", "r", " ", "r", "o", "o", "t", " ", "f", "r",
       "o", "m", " ", "1", "9", "2", ".", "1", "6", "8", ".", "1", ".",
       "4", "5", " ", "p", "o", "r", "t", " ", "5", "4", "3", "2", "1",
       " ", "s", "s", "h", "2", ".", ".", "." >>

\* rawLogs of the seeded scan-2
NginxLogSample ==
    << "1", "2", "7", ".", "0", ".", "0", ".", "1", " ", "-", " ", "-",
       " ", "[", "1", "2", "/", "O", "c", "t", "/", "2", "0", "2", "3",
       ":", "1", "3", ":", "0", "0", ":", "0", "1", " ", "+", "0", "0",
       "0", "0", "]", " ", "\"", "G", "E", "T", " ", "/", "a", "d", "m",
       "i", "n", " ", "H", "T", "T", "P", "/", "1", ".", "1", "\"", " ",
       "4", "0", "4", ".", ".", "." >>

\* repeated authentication failures
FailedPasswordLogs ==
    << "F", "a", "i", "l", "e", "d", " ", "p", "a", "s", "s", "w", "o",
       "r", "d", " ", "f", "o", "r", " ", "r", "o", "o", "t", "\n", "F",
       "a", "i", "l", "e", "d", " ", "p", "a", "s", "s", "w", "o", "r",
       "d", " ", "f", "o", "r", " ", "r", "o", "o", "t", "\n", "F", "a",
       "i", "l", "e", "d", " ", "p", "a", "s", "s", "w", "o", "r", "d",
       " ", "f", "o", "r", " ", "r", "o", "o", "t" >>

\* a text of white space only
BlankLogs == << " ", "\n" >>

\* what the model types or pastes into the log terminal
LogInputs == { BlankLogs, FailedPasswordLogs }

AuthLogTitle ==
    << "A", "u", "t", "h", ".", "l", "o", "g", " ", "A", "u", "d", "i",
       "t" >>

NginxTitle ==
    << "N", "G", "I", "N", "X", " ", "T", "r", "a", "f", "f", "i", "c",
       " ", "S", "c", "a", "n" >>

QuickLogAuditTitle ==
    << "Q", "u", "i", "c", "k", " ", "L", "o", "g", " ", "A", "u", "d",
       "i", "t" >>

Ellipsis == << ".", ".", "." >>

\* the white space String.prototype.trim removes (as far as the texts have it)
TrimChars == {" ", "\t", "\n", "\r"}

RECURSIVE TrimStart(_)
TrimStart(s) ==
    IF s # <<>> /\ Head(s) \in TrimChars THEN TrimStart(Tail(s)) ELSE s

RECURSIVE TrimEnd(_)
TrimEnd(s) ==
    IF s # <<>> /\ s[Len(s)] \in TrimChars
    THEN TrimEnd(SubSeq(s, 1, Len(s) - 1)) ELSE s

\* logs.trim()
Trim(s) == TrimEnd(TrimStart(s))

(***************************************************************************)
(* Assessments, scans and the responses of the analysis service.           *)
(***************************************************************************)
\* new Date(t).toLocaleString(): a date and a time of day, to the second
toLocaleString(t) == t \div 1000

\* an identifier: the text before the number, then the number; '' is <<>>
ScanId(n) == << "scan-", n >>
DemoId(n) == << "demo-", n >>
RemoteId(n) == << "log-", n >>

\* suspicious_events.map(e => ({event, riskLevel: e.risk_level, explanation}))
RECURSIVE mapEvents(_)
mapEvents(es) ==
    IF es = <<>> THEN <<>>
    ELSE << [event |-> Head(es).event,
             riskLevel |-> Head(es).risk_level,
             explanation |-> Head(es).explanation] >> \o mapEvents(Tail(es))

\* suspicious_events.some(e => e.risk_level === level)
someRiskLevel(es, level) == \E i \in 1..Len(es) : es[i].risk_level = level

\* a mutant of statusOf: Medium is looked for first
statusOfMediumFirst(es) ==
    IF someRiskLevel(es, "Medium") THEN "yellow"
    ELSE IF someRiskLevel(es, "High") THEN "red"
    ELSE "green"

\* hasHigh ? 'red' : hasMedium ? 'yellow' : 'green'
statusOf(es) ==
    IF someRiskLevel(es, "High") THEN "red"
    ELSE IF someRiskLevel(es, "Medium") THEN "yellow"
    ELSE "green"

\* logs.length > 20 ? `${logs.substring(0, 20)}...` : 'Quick Log Audit'
titleOf(text) ==
    IF Len(text) > 20 THEN SubSeq(text, 1, 20) \o Ellipsis
    ELSE QuickLogAuditTitle

\* the initial value of scanHistory, computed when the component mounts at t
SeededHistory(t) ==
    << [id |-> ScanId(1),
        title |-> AuthLogTitle,
        timestamp |-> toLocaleString(t - 120000),
        status |-> "red",
        rawLogs |-> AuthLogSample,
        result |->
          [summary |-> "Detected brute-force patterns on SSH port.",
           suspiciousEvents |->
             << [event |-> "Brute Force Attempt",
                 riskLevel |-> "High",
                 explanation |->
                   "42 failed logins in 3 seconds from 192.168.1.45"] >>,
           recommendations |->
             << "Ban IP 192.168.1.45", "Disable root SSH login" >>]],
       [id |-> ScanId(2),
        title |-> NginxTitle,
        timestamp |-> toLocaleString(t - 3600000),
        status |-> "yellow",
        rawLogs |-> NginxLogSample,
        result |->
          [summary |-> "Multiple 404 errors on sensitive endpoints.",
           suspiciousEvents |->
             << [event |-> "Endpoint Scanning",
                 riskLevel |-> "Medium",
                 explanation |->
                   "Requests to /admin, /config, and /.env detected."] >>,
           recommendations |->
             << "Implement rate limiting", "Check WAF rules" >>]] >>

\* the assessment of the catch branch of performAnalysis
ErrorResult ==
    [summary |->
       "Analysis encountered an error. Please check your connection and try again.",
     suspiciousEvents |-> <<>>,
     recommendations |->
       << "Verify backend server is running", "Check network connectivity" >>]

\* what analyzeLogsQuick returns at time t when its request fails
DemoResponse(t) ==
    [summary |->
       "Analysis complete. System heuristics show standard operating parameters.",
     suspicious_events |->
       << << [event |-> "Demo Mode Active",
              risk_level |-> "Low",
              explanation |->
                "Backend server not connected. Showing demo results."] >> >>,
     recommendations |->
       << "Start the backend server: cd backend && uvicorn main:app --reload",
          "Configure GEMINI_API_KEY for AI-powered analysis" >>,
     analysis_id |-> DemoId(t)]

MediumEvent ==
    [event |-> "Endpoint Scanning", risk_level |-> "Medium",
     explanation |-> "Requests to /admin detected."]

HighEvent ==
    [event |-> "Brute Force Attempt", risk_level |-> "High",
     explanation |-> "Repeated failed logins."]

\* The bodies a 2xx answer of the service may carry (response.json() is not
\* validated).  suspicious_events is <<>> when the body has no such member
\* and <<list>> when it has; analysis_id is <<>> when missing or ''.
RemoteBodies ==
    { [summary |-> "No suspicious activity.",
       suspicious_events |-> << <<>> >>,
       recommendations |-> <<>>,
       analysis_id |-> <<>>],
      [summary |-> "Brute force in progress.",
       suspicious_events |-> << << MediumEvent, HighEvent >> >>,
       recommendations |-> << "Ban the source address" >>,
       analysis_id |-> ScanId(1)],
      [summary |-> "ok",
       suspicious_events |-> <<>>,
       recommendations |-> <<>>,
       analysis_id |-> RemoteId(1)] }

\* no performAnalysis call is running in the mounted LogAnalyzer
IdleCall ==
    [stage |-> "idle", logData |-> <<>>, answers |-> FALSE,
     authorization |-> <<>>, cleared |-> FALSE]

\* the state of a LogAnalyzer that is not rendered
Unmounted ==
    /\ logs = <<>>
    /\ isAnalyzing = FALSE
    /\ result = <<>>
    /\ scanHistory = <<>>
    /\ call = IdleCall

LOGIN == "LOGIN"
DASHBOARD == "DASHBOARD"

\* a token the backend issues
BackendToken == "jwt"

\* no handleSubmit call is running in the mounted Login
IdleLogin ==
    [stage |-> "idle", username |-> "", password |-> "",
     authorization |-> <<>>]

\* the state of a Login that is not rendered
NoForm ==
    /\ username = ""
    /\ loginPassword = ""
    /\ error = ""
    /\ isLoading = FALSE
    /\ login = IdleLogin

\* the application as a backend login of Analyst has left it
SignedIn ==
    /\ view = DASHBOARD
    /\ user = << "Analyst" >>
    /\ NoForm
    /\ storedToken = << BackendToken >>

\* the keys the model types
TypedChars == {"a", "A", "7", "!"}

\* the tail of the sample identity number 80 01 01 5009087
IdTail == <<"5", "0", "0", "9", "0", "8", "7">>

\* thirteen digits with every kind of month and day field
IdLikeInputs ==
    { <<"8", "0", m1, m2, d1, d2>> \o IdTail :
        m1 \in {"0", "1", "2"}, m2 \in {"0", "2", "3"},
        d1 \in {"0", "3", "4"}, d2 \in {"0", "1", "2"} }

\* contact numbers with every kind of prefix, mobile group and separator
PhoneLikeInputs ==
    { pre \o s1 \o <<g, "2">> \o s2 \o <<"5", "5", "5">> \o s3
          \o <<"0", "1", "4", "7">> :
        pre \in {<<"+", "2", "7">>, <<"0">>, <<"2", "7">>},
        g \in {"5", "8", "9"},
        s1 \in {<<>>, <<" ">>, <<" ", " ">>},
        s2 \in {<<>>, <<"\t">>},
        s3 \in {<<>>, <<" ">>} }

OtherInputs ==
    { <<"h", "e", "l", "l", "o">>,
      <<"8", "0", "0", "1", "0", "1", "5", "0", "0", "9", "0", "8", "7">>,
      <<"8", "0", "0", "1", "0", "1", "5", "0", "0", "9", "0", "8", "x">>,
      <<"8", "0", "0", "9", "2", "9", "5", "0", "0", "9", "0", "8", "7">>,
      <<" ", "0", "8", "2", "5", "5", "5", "0", "1", "4", "7">>,
      <<"0", "6", "2", "-", "5", "5", "5", "-", "0", "1", "4", "7">>,
      <<"0", "7", "2", "5", "5", "5", "0", "1", "4", "7">>,
      <<"p", "@", "s", "s", "W", "0", "r", "d">>,
      <<"é", "t", "é">> }

PasteInputs == IdLikeInputs \cup PhoneLikeInputs \cup OtherInputs

Last(s) == s[Len(s)]
Front(s) == SubSeq(s, 1, Len(s) - 1)

Init ==
    /\ password = <<>>
    /\ strength = InitialStrength
    /\ mounted = FALSE
    /\ baseline = <<>>
    /\ activeTab = PASSWORD_CHECKER
    /\ Unmounted
    /\ orphans = 0
    /\ appended = <<>>
    /\ lastClick = "none"
    /\ SignedIn

\* useEffect(() => analyzePassword(password), [password]) after the first render
Mount ==
    /\ ~mounted
    /\ mounted' = TRUE
    /\ strength' = analyzePassword(password)
    /\ UNCHANGED <<password, baseline, dashboardVars, appVars>>

\* history only: note that a credential other than the remembered one
\* has been evaluated
NoteEvaluation(v) ==
    IF baseline # <<>> /\ baseline[1].input # v
    THEN <<[baseline[1] EXCEPT !.others = 1]>>
    ELSE baseline

\* a suggestions array that outlives the call
onChangeKeeping(v) ==
    /\ mounted
    /\ password' = v
    /\ strength' = [analyzePassword(v) EXCEPT
                       !.suggestions = strength.suggestions \o @]
    /\ baseline' = NoteEvaluation(v)
    /\ UNCHANGED <<mounted, dashboardVars, appVars>>

\* onChange={(e) => setPassword(e.target.value)} and the effect it triggers
onChange(v) ==
    /\ mounted
    /\ password' = v
    /\ strength' = analyzePassword(v)
    /\ baseline' = NoteEvaluation(v)
    /\ UNCHANGED <<mounted, dashboardVars, appVars>>

TypeChar(c) ==
    /\ Len(password) < MaxFree
    /\ onChange(Append(password, c))

KeyRepeat ==
    /\ password # <<>>
    /\ Len(password) < MaxLen
    /\ onChange(Append(password, Last(password)))

Backspace ==
    /\ password # <<>>
    /\ onChange(Front(password))

ClearField ==
    /\ password # <<>>
    /\ onChange(<<>>)

Paste(v) ==
    /\ password = <<>>
    /\ onChange(v)

Next ==
    \/ Mount
    \/ \E c \in TypedChars : TypeChar(c)
    \/ KeyRepeat
    \/ Backspace
    \/ ClearField
    \/ \E v \in PasteInputs : Paste(v)

Spec == Init /\ [][Next]_vars

(***************************************************************************)
(* The specification that also keeps a record of one earlier evaluation.   *)
(***************************************************************************)
\* longest credential whose evaluation the history may keep
MaxRemembered == 1

\* history only: keep the evaluation on display as the one to compare with
Remember ==
    /\ mounted
    /\ baseline = <<>>
    /\ Len(password) <= MaxRemembered
    /\ baseline' = <<[input |-> password, result |-> strength, others |-> 0]>>
    /\ UNCHANGED <<password, strength, mounted, dashboardVars, appVars>>

NextTyped ==
    \/ Mount
    \/ \E c \in TypedChars : TypeChar(c)
    \/ KeyRepeat
    \/ Backspace
    \/ ClearField
    \/ Remember

TypedSpec == Init /\ [][NextTyped]_vars

\* the effect of the first render always runs
FairSpec == Spec /\ WF_vars(Mount)

(***************************************************************************)
(* Character classes and the charset radix, read off the credential        *)
(* character by character.                                                 *)
(***************************************************************************)
HasLower(val)  == \E i \in DOMAIN val : val[i] \in LowerChars
HasUpper(val)  == \E i \in DOMAIN val : val[i] \in UpperChars
HasDigit(val)  == \E i \in DOMAIN val : val[i] \in DigitChars
HasSymbol(val) ==
    \E i \in DOMAIN val : val[i] \notin (LowerChars \cup UpperChars \cup DigitChars)

Radix(val) ==
      (IF HasLower(val) THEN 26 ELSE 0) + (IF HasUpper(val) THEN 26 ELSE 0)
    + (IF HasDigit(val) THEN 10 ELSE 0) + (IF HasSymbol(val) THEN 33 ELSE 0)

\* R^L, the number of candidate credentials
Combinations(val) == BigPow(Radix(val), Len(val))

\* 2^e, by steps of 2^10
PowerOfTwo(e) == BigMulSmall(BigPow(1024, e \div 10), 2 ^ (e % 10))

(***************************************************************************)
(* C1.  Evaluating the empty credential yields entropy 0, score 0, label   *)
(* 'Very Weak', crack time 'Instantly' and an empty suggestion list.       *)
(* Stated for every state in which the empty credential has been           *)
(* evaluated; the evaluation run by the first render already breaks it.    *)
(***************************************************************************)
C1_EmptyEvaluation ==
    (mounted /\ password = <<>>) =>
        /\ strength.entropy = 0
        /\ strength.score = 0
        /\ strength.label = "Very Weak"
        /\ strength.crackTime = "Instantly"
        /\ strength.suggestions = <<>>

C4_RatingTable ==
    LET byScore ==
            [sc \in 0..5 |->
                CASE sc \in {0, 1} -> <<"Weak", "Non-Compliant", "Critical">>
                  [] sc \in {2, 3} -> <<"Medium", "Partially Compliant", "Elevated">>
                  [] sc = 4 -> <<"Strong", "NIST-Standard", "Secure">>
                  [] sc = 5 -> <<"Excellent", "NIST-Standard", "Secure">>]
        shown == <<strength.label, strength.complianceRating, strength.riskProfile>>
    IN  /\ password = <<>> => shown = <<"Very Weak", "Non-Compliant", "Critical">>
        /\ (mounted /\ password # <<>>) => shown = byScore[strength.score]
        /\ strength.label = "Very Weak" <=> password = <<>>

C4_Witness ==
    /\ mounted
    /\ password # <<>>
    /\ strength.score = 0
    /\ strength.label = "Weak"

(***************************************************************************)
(* C5.  For every non-empty credential, with R the sum of the sizes of the *)
(* active classes (26, 26, 10, 33) and L the length, R > 0 and the entropy *)
(* E satisfies 2^E <= R^L < 2^(E+1); an all-lowercase credential has       *)
(* R = 26.                                                                 *)
(***************************************************************************)
C5_EntropyIsFloorLog2 ==
    (mounted /\ password # <<>>) =>
        /\ Radix(password) > 0
        /\ strength.entropy \in Nat
        /\ ~BigGt(PowerOfTwo(strength.entropy), Combinations(password))
        /\ BigGt(PowerOfTwo(strength.entropy + 1), Combinations(password))
        /\ (\A i \in DOMAIN password : password[i] \in LowerChars)
               => Radix(password) = 26

C5_Witness ==
    /\ mounted
    /\ Len(password) >= 10
    /\ \A i \in DOMAIN password : password[i] \in LowerChars
    /\ strength.entropy >= 47

(***************************************************************************)
(* The crack-time ladder, from the units of time: each rung is the number  *)
(* of guesses made in that time at 10^11 guesses per second.               *)
(***************************************************************************)
RECURSIVE BigTimesAll(_, _)
BigTimesAll(a, factors) ==
    IF factors = <<>> THEN a
    ELSE BigTimesAll(BigMulSmall(a, factors[1]), Tail(factors))

GuessesPerSecond == BigMulSmall(BigPow(10, 10), 10)

Rungs ==
    << [name |-> "Seconds",   guesses |-> GuessesPerSecond],
       [name |-> "Minutes",   guesses |-> BigTimesAll(GuessesPerSecond, <<60>>)],
       [name |-> "Hours",     guesses |-> BigTimesAll(GuessesPerSecond, <<60, 60>>)],
       [name |-> "Days",      guesses |-> BigTimesAll(GuessesPerSecond, <<60, 60, 24>>)],
       [name |-> "Months",    guesses |-> BigTimesAll(GuessesPerSecond, <<60, 60, 24, 30>>)],
       [name |-> "Years",     guesses |-> BigTimesAll(GuessesPerSecond, <<60, 60, 24, 365>>)],
       [name |-> "Decades",   guesses |-> BigTimesAll(GuessesPerSecond, <<60, 60, 24, 365, 10>>)],
       [name |-> "Centuries", guesses |-> BigTimesAll(GuessesPerSecond, <<60, 60, 24, 365, 1000>>)] >>

\* the bucket of the largest rung that R^L / 10^11 exceeds
LargestExceeded(val) ==
    LET over == { k \in 1..Len(Rungs) : BigGt(Combinations(val), Rungs[k].guesses) }
    IN  IF over = {} THEN "Instantly"
        ELSE Rungs[CHOOSE k \in over : \A j \in over : j <= k].name

(***************************************************************************)
(* C6 as stated.  The crack-time bucket is the one of the largest          *)
(* threshold that S = R^L / 10^11 exceeds, and it is 'Instantly' exactly   *)
(* when S is below 1 second.                                               *)
(***************************************************************************)
C6_InstantlyBelowOne ==
    mounted =>
        /\ strength.crackTime = LargestExceeded(password)
        /\ strength.crackTime = "Instantly"
               <=> BigGt(GuessesPerSecond, Combinations(password))

(***************************************************************************)
(* C6 as amended.  The crack-time bucket is the one of the largest         *)
(* threshold that S strictly exceeds, and it is 'Instantly' exactly when   *)
(* S is at most 1 second: S = 1 is still 'Instantly'.                      *)
(***************************************************************************)
C6_InstantlyUpToOne ==
    mounted =>
        /\ strength.crackTime = LargestExceeded(password)
        /\ strength.crackTime = "Instantly"
               <=> ~BigGt(Combinations(password), GuessesPerSecond)

\* eleven digits: exactly 10^11 candidates, one second of guessing
C6_Witness ==
    /\ mounted
    /\ Combinations(password) = GuessesPerSecond
    /\ strength.crackTime = "Instantly"

(***************************************************************************)
(* C7.  The suggestion list is exactly, in this order: the length          *)
(* suggestion iff length < 12, the uppercase suggestion iff no uppercase   *)
(* letter is present, the symbol suggestion iff no symbol is present.  It  *)
(* does not depend on the score and never mentions digits or lowercase.    *)
(***************************************************************************)
C7_SuggestionList ==
    LET Applies(sug) ==
            CASE sug = SuggestLength -> Len(password) < 12
              [] sug = SuggestUpper  -> ~HasUpper(password)
              [] sug = SuggestSymbol -> ~HasSymbol(password)
    IN  mounted =>
            strength.suggestions =
                SelectSeq(<<SuggestLength, SuggestUpper, SuggestSymbol>>, Applies)

C7_Witness ==
    /\ mounted
    /\ password # <<>>
    /\ ~HasDigit(password)
    /\ ~HasLower(password)
    /\ strength.score < 4
    /\ strength.suggestions = <<>>

(***************************************************************************)
(* C8 as stated.  There are credentials of length 12 or 13 whose score is  *)
(* >= 4 and whose suggestion list is nevertheless non-empty: some          *)
(* behaviour reaches one.                                                  *)
(***************************************************************************)
C8_QuirkAt12To13 ==
    <>(/\ mounted
       /\ Len(password) \in {12, 13}
       /\ strength.score >= 4
       /\ strength.suggestions # <<>>)

(***************************************************************************)
(* C8 as amended.  A credential whose score is >= 4 and whose suggestion   *)
(* list is non-empty has length 8..11 or length >= 14; at length 12 or 13  *)
(* a score >= 4 always comes with an empty suggestion list.                *)
(***************************************************************************)
C8_QuirkOutside12To13 ==
    (mounted /\ strength.score >= 4 /\ strength.suggestions # <<>>)
        => (Len(password) \in 8..11 \/ Len(password) >= 14)

C8_Witness ==
    /\ mounted
    /\ strength.score >= 4
    /\ strength.suggestions # <<>>
    /\ Len(password) >= 14

IsIdShaped(val) ==
    /\ Len(val) = 13
    /\ \A i \in 1..13 : val[i] \in DigitChars
    /\ 10 * DigitValue(val[3]) + DigitValue(val[4]) \in 1..12
    /\ 10 * DigitValue(val[5]) + DigitValue(val[6]) \in 1..31

IsPhoneShaped(val) ==
    \E pre \in {<<"+", "2", "7">>, <<"0">>}, w1 \in 0..1, w2 \in 0..1, w3 \in 0..1 :
        LET g == Len(pre) + w1 + 1
            h == g + 2 + w2
            k == h + 3 + w3
        IN  /\ Len(val) = k + 3
            /\ SubSeq(val, 1, Len(pre)) = pre
            /\ w1 = 1 => val[g - 1] \in SpaceChars
            /\ val[g] \in {"6", "7", "8"}
            /\ val[g + 1] \in DigitChars
            /\ w2 = 1 => val[h - 1] \in SpaceChars
            /\ \A i \in h..(h + 2) : val[i] \in DigitChars
            /\ w3 = 1 => val[k - 1] \in SpaceChars
            /\ \A i \in k..(k + 3) : val[i] \in DigitChars

C10_PopiaPatterns ==
    mounted =>
        /\ strength.popiaWarning =
               IF IsIdShaped(password) THEN PopiaIdAlert
               ELSE IF IsPhoneShaped(password) THEN PrivacyPhoneWarning
               ELSE Null
        /\ password = <<"h", "e", "l", "l", "o">> => strength.popiaWarning = Null

C10_Witness ==
    /\ mounted
    /\ password = <<"8", "0", "0", "1", "0", "1", "5", "0", "0", "9", "0", "8", "7">>
    /\ strength.popiaWarning = PopiaIdAlert


(***************************************************************************)
(* The dashboard: tab selection, the log terminal, performAnalysis and the *)
(* analysis service.  The credential auditor is left alone.                *)
(***************************************************************************)
\* is the LogAnalyzer rendered
Rendered == activeTab = LOG_ANALYZER

\* NavItem onClick: setActiveTab(tab).  The tab that is left is unmounted
\* and its state is lost; a call it had started goes on without it.  The tab
\* that is entered is mounted with its initial state.
SelectTab(tab) ==
    /\ lastClick' = "none"
    /\ activeTab' = tab
    /\ IF tab = activeTab
       THEN UNCHANGED <<analyzerVars, appended>>
       ELSE IF tab = PASSWORD_CHECKER
       THEN /\ call.stage # "idle" => orphans < MaxOrphans
            /\ orphans' = IF call.stage # "idle" THEN orphans + 1 ELSE orphans
            /\ logs' = <<>>
            /\ isAnalyzing' = FALSE
            /\ result' = <<>>
            /\ scanHistory' = <<>>
            /\ call' = IdleCall
            /\ UNCHANGED appended
       ELSE /\ logs' = <<>>
            /\ isAnalyzing' = FALSE
            /\ result' = <<>>
            /\ \E t \in Times : scanHistory' = SeededHistory(t)
            /\ call' = IdleCall
            /\ UNCHANGED <<orphans, appended>>
    /\ UNCHANGED <<auditorVars, appVars>>

\* setLogs(text)
setLogs(text) ==
    /\ Rendered
    /\ logs' = text
    /\ lastClick' = "none"
    /\ UNCHANGED <<activeTab, isAnalyzing, result, scanHistory, call, orphans,
                   appended, auditorVars, appVars>>

\* textarea onChange
LogsChange(text) == setLogs(text)

\* Upload File: reader.onload
FileLoaded(text) == setLogs(text)

\* Clear button.  (history, in call.cleared: Clear was pressed while the
\* call was waiting)
clearLogs ==
    /\ Rendered
    /\ logs' = <<>>
    /\ result' = <<>>
    /\ lastClick' = "none"
    /\ call' = IF call.stage = "idle" THEN call
               ELSE [call EXCEPT !.cleared = TRUE]
    /\ UNCHANGED <<activeTab, isAnalyzing, scanHistory, orphans, appended,
                   auditorVars, appVars>>

\* a mutant of loadScan: the entry that is loaded is moved to the front
loadScanToFront(i) ==
    /\ Rendered
    /\ i \in 1..Len(scanHistory)
    /\ logs' = scanHistory[i].rawLogs
    /\ result' = << scanHistory[i].result >>
    /\ scanHistory' = << scanHistory[i] >> \o
           SubSeq(scanHistory, 1, i - 1) \o
           SubSeq(scanHistory, i + 1, Len(scanHistory))
    /\ lastClick' = "none"
    /\ UNCHANGED <<activeTab, isAnalyzing, call, orphans, appended,
                   auditorVars, appVars>>

\* click on the i-th entry of Recent Scans
loadScan(i) ==
    /\ Rendered
    /\ i \in 1..Len(scanHistory)
    /\ logs' = scanHistory[i].rawLogs
    /\ result' = << scanHistory[i].result >>
    /\ lastClick' = "none"
    /\ UNCHANGED <<activeTab, isAnalyzing, scanHistory, call, orphans,
                   appended, auditorVars, appVars>>

\* disabled={isAnalyzing || !logs} of the analyze button
AnalyzeDisabled == isAnalyzing \/ logs = <<>>

\* a mutant of performAnalysis: text of white space is analysed too
performAnalysisOfBlank ==
    /\ Rendered
    /\ ~AnalyzeDisabled
    /\ Len(appended) < MaxScans
    /\ isAnalyzing' = TRUE
    /\ \E a \in BOOLEAN :
          call' = [stage |-> "ai", logData |-> logs, answers |-> a,
                   authorization |-> storedToken, cleared |-> FALSE]
    /\ lastClick' = IF Trim(logs) = <<>> THEN "ignored" ELSE "started"
    /\ UNCHANGED <<activeTab, logs, result, scanHistory, orphans,
                   appended, auditorVars, appVars>>

\* click on the analyze button: performAnalysis up to its first await.
\* The request is sent with the text of this moment; whether the service
\* will ever answer it is the environment's choice.
performAnalysis ==
    /\ Rendered
    /\ ~AnalyzeDisabled
    /\ IF Trim(logs) = <<>>
       THEN /\ lastClick' = "ignored"
            /\ UNCHANGED <<isAnalyzing, call>>
       ELSE /\ Len(appended) < MaxScans
            /\ isAnalyzing' = TRUE
            /\ \E a \in BOOLEAN :
                  call' = [stage |-> "ai", logData |-> logs, answers |-> a,
                   authorization |-> storedToken, cleared |-> FALSE]
            /\ lastClick' = "started"
    /\ UNCHANGED <<activeTab, logs, result, scanHistory, orphans,
                   appended, auditorVars, appVars>>

\* the scan performAnalysis builds from a response at time t
newScanOf(apiResult, text, t) ==
    [id |-> IF apiResult.analysis_id # <<>> THEN apiResult.analysis_id
            ELSE ScanId(t),
     title |-> titleOf(text),
     timestamp |-> toLocaleString(t),
     status |-> statusOf(apiResult.suspicious_events[1]),
     result |->
       [summary |-> apiResult.summary,
        suspiciousEvents |-> mapEvents(apiResult.suspicious_events[1]),
        recommendations |-> apiResult.recommendations],
     rawLogs |-> text]

\* a mutant of resume: the catch branch sets no result
resumeSilently(apiResult, t) ==
    /\ IF apiResult.suspicious_events = <<>>
       THEN UNCHANGED <<result, scanHistory, appended>>
       ELSE LET newScan == newScanOf(apiResult, call.logData, t)
            IN  /\ result' = << newScan.result >>
                /\ scanHistory' = << newScan >> \o scanHistory
                /\ appended' = << newScan >> \o appended
    /\ isAnalyzing' = FALSE
    /\ call' = IdleCall
    /\ lastClick' = "none"
    /\ UNCHANGED <<activeTab, logs, orphans, auditorVars, appVars>>

\* performAnalysis after its await, with what analyzeLogsWithAI returned and
\* the time t its readings of the clock give: a body without
\* suspicious_events makes .map throw, which ends in the catch branch;
\* finally resets isAnalyzing
resume(apiResult, t) ==
    /\ IF apiResult.suspicious_events = <<>>
       THEN /\ result' = << ErrorResult >>
            /\ UNCHANGED <<scanHistory, appended>>
       ELSE LET newScan == newScanOf(apiResult, call.logData, t)
            IN  /\ result' = << newScan.result >>
                /\ scanHistory' = << newScan >> \o scanHistory
                /\ appended' = << newScan >> \o appended
    /\ isAnalyzing' = FALSE
    /\ call' = IdleCall
    /\ lastClick' = "none"
    /\ UNCHANGED <<activeTab, logs, orphans, auditorVars, appVars>>

\* /api/v1/analyze/logs answers 2xx with a body
AiSucceeds(body) ==
    /\ call.stage = "ai"
    /\ call.answers
    /\ \E t \in Times : resume(body, t)

\* a mutant of AiFails: the quick endpoint is left out
AiFailsToDemo ==
    /\ call.stage = "ai"
    /\ call.answers
    /\ \E t1, t2 \in Times : t1 <= t2 /\ resume(DemoResponse(t1), t2)

\* /api/v1/analyze/logs fails (no connection, or a status that is not 2xx):
\* analyzeLogsWithAI calls analyzeLogsQuick, which sends the second request
AiFails ==
    /\ call.stage = "ai"
    /\ call.answers
    /\ \E a \in BOOLEAN :
          call' = [call EXCEPT !.stage = "quick", !.answers = a,
                               !.authorization = storedToken]
    /\ lastClick' = "none"
    /\ UNCHANGED <<activeTab, logs, isAnalyzing, result, scanHistory, orphans,
                   appended, auditorVars, appVars>>

\* /api/v1/analyze/logs/quick answers 2xx with a body
QuickSucceeds(body) ==
    /\ call.stage = "quick"
    /\ call.answers
    /\ \E t \in Times : resume(body, t)

\* /api/v1/analyze/logs/quick fails: analyzeLogsQuick returns its own response
QuickFails ==
    /\ call.stage = "quick"
    /\ call.answers
    /\ \E t1, t2 \in Times : t1 <= t2 /\ resume(DemoResponse(t1), t2)

\* a call of an unmounted LogAnalyzer comes to its end: its setState calls
\* change nothing
OrphanEnds ==
    /\ orphans > 0
    /\ orphans' = orphans - 1
    /\ lastClick' = "none"
    /\ UNCHANGED <<activeTab, logs, isAnalyzing, result, scanHistory, call,
                   appended, auditorVars, appVars>>

\* the Threat Intelligence tab, once opened, stays open
NextLog ==
    \/ SelectTab(LOG_ANALYZER)
    \/ \E text \in LogInputs : LogsChange(text)
    \/ \E text \in LogInputs : FileLoaded(text)
    \/ clearLogs
    \/ \E i \in 1..(2 + MaxScans) : loadScan(i)
    \/ performAnalysis
    \/ \E body \in RemoteBodies : AiSucceeds(body)
    \/ AiFails
    \/ \E body \in RemoteBodies : QuickSucceeds(body)
    \/ QuickFails

LogSpec == Init /\ [][NextLog]_vars

\* the whole dashboard: the user also goes back to the Password Auditor tab
NextDashboard ==
    \/ NextLog
    \/ SelectTab(PASSWORD_CHECKER)
    \/ OrphanEnds

DashboardSpec == Init /\ [][NextDashboard]_vars

\* an answer of the service reaches the call that waits for it
ResponseArrives ==
    \/ \E body \in RemoteBodies : AiSucceeds(body)
    \/ AiFails
    \/ \E body \in RemoteBodies : QuickSucceeds(body)
    \/ QuickFails

\* Answers the service sends are delivered and the call is resumed; nothing
\* makes the service answer (fetch is called without a time limit).
FairLogSpec == LogSpec /\ WF_vars(ResponseArrives)

(***************************************************************************)
(* Claims about the scan history.                                          *)
(***************************************************************************)
HistoryIndices == 1..Len(scanHistory)

\* the entries the history had when the LogAnalyzer was mounted
EarlierEntries == SubSeq(scanHistory, Len(scanHistory) - 1, Len(scanHistory))

\* C11: every successful analysis prepends its entry: where the history is
\* on display it is the scans the analyses of the session have produced,
\* the newest first (after a and then b: b, a), followed by the earlier
\* entries in their order.
C11_NewestFirst ==
    Rendered => scanHistory = appended \o EarlierEntries

\* C12: every entry of the history, the seeded ones included, is red iff
\* its result has a High event, yellow iff it has no High event and has a
\* Medium event, and green otherwise.
C12_StatusOfEvents ==
    \A i \in HistoryIndices :
        LET scan == scanHistory[i]
            events == scan.result.suspiciousEvents
            high == \E k \in 1..Len(events) : events[k].riskLevel = "High"
            medium == \E k \in 1..Len(events) : events[k].riskLevel = "Medium"
        IN  /\ scan.status = "red" <=> high
            /\ scan.status = "yellow" <=> (~high /\ medium)
            /\ scan.status = "green" <=> (~high /\ ~medium)

\* an analysis has added a red scan that also has a Medium event, in front
\* of the seeded red and yellow scans
C12_Witness ==
    /\ Len(scanHistory) = 3
    /\ scanHistory[1].status = "red"
    /\ \E k \in 1..Len(scanHistory[1].result.suspiciousEvents) :
          scanHistory[1].result.suspiciousEvents[k].riskLevel = "Medium"
    /\ scanHistory[2].status = "red"
    /\ scanHistory[3].status = "yellow"

\* C13: the ids of the entries of the history are pairwise distinct.
C13_DistinctIds ==
    \A i, j \in HistoryIndices :
        i # j => scanHistory[i].id # scanHistory[j].id

\* C14: a scan an analysis has added stays in the history for the rest of
\* the session: it is there whenever the history is on display, also after
\* the user has been to the Password Auditor tab and back.
C14_HistoryKeepsScans ==
    Rendered =>
        \A k \in 1..Len(appended) :
            \E i \in HistoryIndices : scanHistory[i] = appended[k]

\* C15: selecting an entry shows exactly its stored rawLogs and result,
\* sends no request and leaves the history as it is; and no step changes an
\* entry that is in the history: while the tab stays open the history keeps
\* its entries, in their order, at its end.
C15_LoadScanFrame ==
    [][ /\ \A i \in HistoryIndices :
              loadScan(i) =>
                  /\ logs' = scanHistory[i].rawLogs
                  /\ result' = << scanHistory[i].result >>
                  /\ UNCHANGED <<scanHistory, isAnalyzing, call, orphans>>
        /\ (Rendered /\ Rendered') =>
              /\ Len(scanHistory') >= Len(scanHistory)
              /\ \A i \in HistoryIndices :
                    scanHistory'[Len(scanHistory') - Len(scanHistory) + i]
                        = scanHistory[i]
      ]_vars

\* while the analysis of another text is running, the seeded scan-2 has
\* been selected
C15_Witness ==
    /\ isAnalyzing
    /\ call.logData = FailedPasswordLogs
    /\ logs = NginxLogSample
    /\ scanHistory[2].id = ScanId(2)
    /\ result = << scanHistory[2].result >>

\* the requests for a log analysis that have been sent and not yet answered
InFlight == (IF call.stage # "idle" THEN 1 ELSE 0) + orphans

\* C16: at most one log-analysis request is in flight at any time.
C16_OneRequestInFlight == InFlight <= 1

\* C17: the step that ends an analysis sets the result once, to the result
\* of the remote success or of the fallback, which is the result of the scan
\* it adds; it is never the bare error assessment.
C17_OneOutcome ==
    [][ (call.stage # "idle" /\ call'.stage = "idle" /\ Rendered') =>
            /\ result' # << ErrorResult >>
            /\ Len(scanHistory') = Len(scanHistory) + 1
            /\ result' = << scanHistory'[1].result >>
      ]_vars

\* C18: when neither request is answered by the service, the analysis of a
\* text of repeated "Failed password" lines shows at least one High event.
C18_FallbackClassifies ==
    [][ (QuickFails /\ call.logData = FailedPasswordLogs) =>
            \E k \in 1..Len(result'[1].suspiciousEvents) :
                result'[1].suspiciousEvents[k].riskLevel = "High"
      ]_vars

C20_AnalysisEnds == isAnalyzing ~> ~isAnalyzing

(***************************************************************************)
(* The application: signing in and signing out.                            *)
(***************************************************************************)
\* what the model enters in the fields of the sign-in form
Usernames == {"", "Analyst", "admin"}
Passwords == {"", "cyber-demo-2024", "demo2024", "password123"}

FillInAllFields == "Please fill in all fields"
InvalidCredentials == "Invalid credentials. Please use the demo login provided."

\* The bodies a 2xx answer to /api/v1/auth/login may carry; a member that
\* is missing is ''.
LoginBodies ==
    { [success |-> TRUE, access_token |-> BackendToken, detail |-> ""],
      [success |-> TRUE, access_token |-> "", detail |-> ""],
      [success |-> FALSE, access_token |-> "",
       detail |-> "Incorrect username or password"],
      [success |-> FALSE, access_token |-> "", detail |-> ""] }

\* the page is loaded: the sign-in form is shown, no dashboard is mounted
AppInit ==
    /\ view = LOGIN
    /\ user = <<>>
    /\ NoForm
    /\ storedToken = <<>>
    /\ password = <<>>
    /\ strength = InitialStrength
    /\ mounted = FALSE
    /\ baseline = <<>>
    /\ activeTab = PASSWORD_CHECKER
    /\ Unmounted
    /\ orphans = 0
    /\ appended = <<>>
    /\ lastClick = "none"

\* Identity input onChange
setUsername(v) ==
    /\ view = LOGIN
    /\ username' = v
    /\ UNCHANGED <<view, user, loginPassword, error, isLoading, login,
                   storedToken, auditorVars, dashboardVars>>

\* Password input onChange
setPassword(v) ==
    /\ view = LOGIN
    /\ loginPassword' = v
    /\ UNCHANGED <<view, user, username, error, isLoading, login,
                   storedToken, auditorVars, dashboardVars>>

\* the form is submitted: handleSubmit up to its await.  The button is
\* disabled while isLoading.
handleSubmit ==
    /\ view = LOGIN
    /\ ~isLoading
    /\ IF username = "" \/ loginPassword = ""
       THEN /\ error' = FillInAllFields
            /\ UNCHANGED <<isLoading, login>>
       ELSE /\ error' = ""
            /\ isLoading' = TRUE
            /\ login' = [stage |-> "sent", username |-> username,
                         password |-> loginPassword,
                         authorization |-> storedToken]
    /\ UNCHANGED <<view, user, username, loginPassword, storedToken,
                   auditorVars, dashboardVars>>

\* a mutant of demoValidation: the password of admin is not compared
demoValidationOfName(credentials) ==
    IF \/ (credentials.username = "Analyst"
            /\ credentials.password = "cyber-demo-2024")
       \/ credentials.username = "admin"
    THEN [success |-> TRUE, access_token |-> "demo-token", detail |-> ""]
    ELSE [success |-> FALSE, access_token |-> "",
          detail |-> InvalidCredentials]

\* the catch branch of loginToBackend
demoValidation(credentials) ==
    IF \/ (credentials.username = "Analyst"
            /\ credentials.password = "cyber-demo-2024")
       \/ (credentials.username = "admin"
            /\ credentials.password = "password123")
    THEN [success |-> TRUE, access_token |-> "demo-token", detail |-> ""]
    ELSE [success |-> FALSE, access_token |-> "",
          detail |-> InvalidCredentials]

\* a mutant of handleLogin: the view is not changed
handleLoginOfUser(name) ==
    /\ user' = << name >>
    /\ UNCHANGED view

\* App.handleLogin
handleLogin(name) ==
    /\ user' = << name >>
    /\ view' = DASHBOARD

\* handleSubmit after its await, with what loginToBackend returned.  On
\* success the Login is unmounted and a Dashboard is mounted.
resumeSubmit(response) ==
    /\ IF response.success
       THEN /\ handleLogin(login.username)
            /\ username' = ""
            /\ loginPassword' = ""
            /\ error' = ""
            /\ isLoading' = FALSE
       ELSE /\ error' = IF response.detail # "" THEN response.detail
                         ELSE InvalidCredentials
            /\ isLoading' = FALSE
            /\ UNCHANGED <<view, user, username, loginPassword>>
    /\ login' = IdleLogin
    /\ UNCHANGED <<auditorVars, dashboardVars>>

\* /api/v1/auth/login answers 2xx with a body: loginToBackend stores the
\* token of a successful body
LoginAnswered(body) ==
    /\ login.stage = "sent"
    /\ storedToken' = IF body.success /\ body.access_token # ""
                      THEN << body.access_token >> ELSE storedToken
    /\ resumeSubmit(body)

\* /api/v1/auth/login answers with a status that is not 2xx: apiRequest
\* throws
LoginRejected ==
    /\ login.stage = "sent"
    /\ UNCHANGED storedToken
    /\ resumeSubmit(demoValidation(login))

\* the backend cannot be reached: fetch rejects
LoginUnreachable ==
    /\ login.stage = "sent"
    /\ UNCHANGED storedToken
    /\ resumeSubmit(demoValidation(login))

\* a mutant of SignOut: the token stays in localStorage
SignOutKeepingToken ==
    /\ view = DASHBOARD
    /\ call.stage # "idle" => orphans < MaxOrphans
    /\ UNCHANGED storedToken
    /\ user' = <<>>
    /\ view' = LOGIN
    /\ orphans' = IF call.stage # "idle" THEN orphans + 1 ELSE orphans
    /\ activeTab' = PASSWORD_CHECKER
    /\ logs' = <<>>
    /\ isAnalyzing' = FALSE
    /\ result' = <<>>
    /\ scanHistory' = <<>>
    /\ call' = IdleCall
    /\ password' = <<>>
    /\ strength' = InitialStrength
    /\ mounted' = FALSE
    /\ baseline' = <<>>
    /\ appended' = <<>>
    /\ lastClick' = "none"
    /\ UNCHANGED formVars

\* Sign Out button: logoutFromBackend(); onLogout().  The Dashboard is
\* unmounted with all it shows; a call it had started goes on without it.
SignOut ==
    /\ view = DASHBOARD
    /\ call.stage # "idle" => orphans < MaxOrphans
    /\ storedToken' = <<>>
    /\ user' = <<>>
    /\ view' = LOGIN
    /\ orphans' = IF call.stage # "idle" THEN orphans + 1 ELSE orphans
    /\ activeTab' = PASSWORD_CHECKER
    /\ logs' = <<>>
    /\ isAnalyzing' = FALSE
    /\ result' = <<>>
    /\ scanHistory' = <<>>
    /\ call' = IdleCall
    /\ password' = <<>>
    /\ strength' = InitialStrength
    /\ mounted' = FALSE
    /\ baseline' = <<>>
    /\ appended' = <<>>
    /\ lastClick' = "none"
    /\ UNCHANGED formVars

NextApp ==
    \/ \E v \in Usernames : setUsername(v)
    \/ \E v \in Passwords : setPassword(v)
    \/ handleSubmit
    \/ \E body \in LoginBodies : LoginAnswered(body)
    \/ LoginRejected
    \/ LoginUnreachable
    \/ SignOut
    \/ \E tab \in {PASSWORD_CHECKER, LOG_ANALYZER} :
           view = DASHBOARD /\ SelectTab(tab)
    \/ \E text \in LogInputs : view = DASHBOARD /\ LogsChange(text)
    \/ (view = DASHBOARD /\ performAnalysis)
    \/ \E body \in RemoteBodies : AiSucceeds(body)
    \/ AiFails
    \/ \E body \in RemoteBodies : QuickSucceeds(body)
    \/ QuickFails
    \/ OrphanEnds

AppSpec == AppInit /\ [][NextApp]_vars

\* the application from the moment Analyst has signed in at the backend
SessionSpec == Init /\ [][NextApp]_vars

(***************************************************************************)
(* Claims about signing in and signing out.                                *)
(***************************************************************************)
\* C21: when the backend answers the login with a status that is not 2xx,
\* the user is not logged in, whatever was typed: after the step the view
\* is still LOGIN, user is null and an error message is shown.
C21_RejectedStaysOut ==
    [][LoginRejected => (view' = LOGIN /\ user' = <<>> /\ error' # "")]_vars

\* the demo pairs as src/README.md lists them, and as loginToBackend and
\* the Audit Credentials panel have them
ReadmePairs == { <<"Analyst", "demo2024">>, <<"admin", "password123">> }
DemoPairs == { <<"Analyst", "cyber-demo-2024">>, <<"admin", "password123">> }

\* the outcome of a login with a pair that is, or is not, a demo pair
DemoOutcome(pairs) ==
    IF <<login.username, login.password>> \in pairs
    THEN view' = DASHBOARD /\ user' = << login.username >>
    ELSE view' = LOGIN /\ user' = <<>> /\ error' # ""

C23_TokenCarried ==
    /\ view = DASHBOARD => storedToken # <<>>
    /\ call.stage # "idle" =>
           call.authorization # <<>> /\ call.authorization = storedToken

(***************************************************************************)
(* Claims about the sources of an analysis and about its error branch.     *)
(***************************************************************************)
\* C24: an analysis starts with the authenticated endpoint; the quick
\* endpoint is called only by the step in which the authenticated call
\* fails, and that step ends nothing; the canned response is shown only by
\* the step in which the quick call fails, and that step ends the analysis
\* with an assessment, not with the error of a rejection.
C24_SourcesInOrder ==
    [][/\ (call.stage = "idle" /\ call'.stage # "idle") => call'.stage = "ai"
       /\ AiFails => /\ call'.stage = "quick"
                     /\ isAnalyzing'
                     /\ UNCHANGED <<result, scanHistory>>
       /\ (call.stage # "quick" /\ call'.stage = "quick") => AiFails
       /\ (appended' # appended /\ appended' # <<>>
           /\ Head(appended').id[1] = "demo-") => call.stage = "quick"
       /\ QuickFails => /\ call'.stage = "idle"
                        /\ ~isAnalyzing'
                        /\ result' # <<>>
                        /\ result' # << ErrorResult >>
                        /\ Head(scanHistory').id[1] = "demo-"]_vars

\* the canned response is in the history
C24_Witness == appended # <<>> /\ Head(appended).id[1] = "demo-"

\* the step in which performAnalysis comes to its end in a mounted
\* LogAnalyzer
AnalysisEnds == isAnalyzing /\ ~isAnalyzing' /\ Rendered'

\* C25: an analysis that ends without adding to the history ended in the
\* error branch: the result is the error assessment, which has no events,
\* and the history and the log text are as they were; the history changes,
\* while the tab is shown, only when an analysis ends with success, by the
\* scan whose result is then displayed.
C25_ErrorBranch ==
    [][/\ (AnalysisEnds /\ scanHistory' = scanHistory) =>
              result' = << ErrorResult >>
       /\ (AnalysisEnds /\ result' = << ErrorResult >>) =>
              /\ ErrorResult.suspiciousEvents = <<>>
              /\ UNCHANGED <<scanHistory, logs, appended>>
       /\ (Rendered /\ Rendered' /\ scanHistory' # scanHistory) =>
              /\ AnalysisEnds
              /\ result' # << ErrorResult >>
              /\ scanHistory' = << Head(scanHistory') >> \o scanHistory
              /\ result' = << Head(scanHistory').result >>]_vars

\* the error assessment is displayed and the history has its two seeded
\* entries only
C25_Witness ==
    /\ Rendered
    /\ result = << ErrorResult >>
    /\ ~isAnalyzing
    /\ Len(scanHistory) = 2
    /\ lastClick = "none"

(***************************************************************************)
(* Claims about signing out and about the view.                            *)
(***************************************************************************)
\* C26: Sign Out removes the stored token and returns to the view LOGIN
\* with user null; a token comes to be stored again only by a login that
\* the backend answers with success and a token; every request is sent
\* with the token stored at that moment, so that no request waiting while
\* no token is stored carries an Authorization header.
C26_SignOutClears ==
    [][/\ SignOut => (storedToken' = <<>> /\ view' = LOGIN /\ user' = <<>>)
       /\ (storedToken = <<>> /\ storedToken' # <<>>) =>
              \E body \in LoginBodies :
                  /\ body.success
                  /\ body.access_token # ""
                  /\ LoginAnswered(body)
       /\ (login.stage = "idle" /\ login'.stage = "sent") =>
              login'.authorization = storedToken
       /\ (call'.stage # "idle" /\ call'.stage # call.stage) =>
              call'.authorization = storedToken
       /\ storedToken' = <<>> =>
              /\ login'.authorization = <<>>
              /\ call'.authorization = <<>>]_vars

\* after Sign Out a login request is waiting that was sent without the
\* header
C26_Witness ==
    /\ view = LOGIN
    /\ storedToken = <<>>
    /\ login.stage = "sent"
    /\ login.authorization = <<>>

\* C27: the view is DASHBOARD exactly while user is not null; a step that
\* changes the view or user changes both, and it is either Sign Out or the
\* end of a login.
C27_ViewFollowsUser ==
    /\ [](view = DASHBOARD <=> user # <<>>)
    /\ [][(view' # view \/ user' # user) =>
              /\ view' # view
              /\ user' # user
              /\ \/ SignOut
                 \/ LoginRejected
                 \/ \E body \in LoginBodies : LoginAnswered(body)]_vars

\* admin has logged in
C27_Witness == view = DASHBOARD /\ user = << "admin" >>

(***************************************************************************)
(* Claim about Clear.                                                      *)
(***************************************************************************)
\* C28: once Clear was pressed while an analysis was waiting, the result
\* stays null in every step of the shown tab that is not the selection of
\* a history entry (no analysis can be started while that one is waiting).
C28_ClearedStaysCleared ==
    [][(call.cleared /\ result = <<>> /\ Rendered') =>
           \/ result' = <<>>
           \/ \E i \in 1..Len(scanHistory) : loadScan(i)]_vars

(***************************************************************************)
(* The specification of the edits that append to the credential in the     *)
(* field or take its last character away.                                  *)
(***************************************************************************)
NextAppend ==
    \/ Mount
    \/ \E c \in TypedChars : TypeChar(c)
    \/ KeyRepeat
    \/ Backspace
    \/ \E v \in PasteInputs : Paste(v)

AppendSpec == Init /\ [][NextAppend]_vars

(***************************************************************************)
(* Claims about the rating of flagged credentials and about appending.     *)
(***************************************************************************)
\* C29: a credential on display with a POPIA warning is rated neither
\* 'NIST-Standard' nor 'Secure'.
C29_FlaggedNotCompliant ==
    (mounted /\ strength.popiaWarning # Null) =>
        /\ strength.complianceRating # "NIST-Standard"
        /\ strength.riskProfile # "Secure"

\* a is b with some of its elements left out
RECURSIVE IsSubList(_, _)
IsSubList(a, b) ==
    IF a = <<>> THEN TRUE
    ELSE IF b = <<>> THEN FALSE
    ELSE IF Head(a) = Head(b) THEN IsSubList(Tail(a), Tail(b))
    ELSE IsSubList(a, Tail(b))

\* the assessment of st is not below that of s
NotLower(s, st) ==
    /\ charsetSizeOf(st) >= charsetSizeOf(s)
    /\ calculateMetrics(st).score >= calculateMetrics(s).score
    /\ calculateMetrics(st).entropy >= calculateMetrics(s).entropy
    /\ IsSubList(suggestionsOf(st), suggestionsOf(s))

\* C30: the charset radix, the score and the entropy of the credential in
\* the field are at least those of the credential without its last
\* character, and its suggestions are a sub-list of the suggestions of
\* that one.  Backspace makes every prefix s of a credential s + t a
\* credential in the field, so that the chain of these comparisons from s
\* to s + t gives the same for every s and t.
C30_AppendingNeverLowers ==
    password # <<>> => NotLower(Front(password), password)

\* the fourteenth character has raised the score and removed no suggestion
\* that the thirteen before it did not have
C30_Witness ==
    /\ mounted
    /\ Len(password) = 14
    /\ strength.score > calculateMetrics(Front(password)).score
    /\ Len(strength.suggestions) < Len(suggestionsOf(SubSeq(password, 1, 2)))

=============================================================================
